---- MODULE Spec2Model ----
(***************************************************************************)
(* Model of geonode's spatial-upload validation code.  The repository      *)
(* holds two generations of the upload handlers:                           *)
(*   "layers" : geonode/layers/uploadhandlers.py  (validation happens in   *)
(*              the handler's constructor, files are saved by save_files)  *)
(*   "upload" : geonode/upload/uploadhandlers.py  (get_upload_handler      *)
(*              builds the handler, then validate_files, then write_files) *)
(* Both are modelled; the variable gen says which one a behaviour runs.    *)
(*                                                                         *)
(* File names are sequences of one-character strings, so that splitext,    *)
(* basename, lower and endswith are computed the way Python computes them. *)
(***************************************************************************)
EXTENDS Integers, Sequences, FiniteSets, TLC

VARIABLES
    gen,        \* "layers" or "upload": the generation of handlers in use
    files,      \* the uploaded files; files[1] is the form's base_file
    pc,         \* how far the upload has come
    handler,    \* the upload handler (its class and attributes)
    error,      \* the exception that ended the upload, or NoError
    disk,       \* the paths written under the destination directory
    result,     \* what save_files / write_files returned
    ingestion,  \* the ingestion handler built from the written paths
    temporary_directory,
                \* the destination directory the files were written to
    spatial_files,
                \* the SpatialFiles handed to preprocess_files
    commands    \* the gdal_translate commands run so far

vars == <<gen, files, pc, handler, error, disk, result, ingestion,
          temporary_directory, spatial_files, commands>>

(***************************************************************************)
(* Bounds of the model.                                                    *)
(***************************************************************************)
\* Longest shapefile candidate list (uploaded names, or members of a zip).
MaxFiles == 4
\* Most GroundOverlay elements in a KML document.
MaxOverlays == 2
\* Most companion files uploaded beside a KML document.
MaxCompanions == 2
\* Longest file name handed to clean_name.
MaxNameLen == 3

(***************************************************************************)
(* Strings.                                                                *)
(***************************************************************************)
Max(S) == CHOOSE x \in S : \A y \in S : y <= x

\* str.lower(), on the characters the model uses
LowerChar(c) ==
    CASE c = "A" -> "a"
      [] c = "B" -> "b"
      [] c = "D" -> "d"
      [] c = "F" -> "f"
      [] c = "K" -> "k"
      [] c = "M" -> "m"
      [] c = "Z" -> "z"
      [] OTHER -> c

lower(s) == [i \in 1..Len(s) |-> LowerChar(s[i])]

endswith(s, suffix) ==
    /\ Len(s) >= Len(suffix)
    /\ SubSeq(s, Len(s) - Len(suffix) + 1, Len(s)) = suffix

\* str.rfind(c) + 1 : 0 when c does not occur
LastIndexOf(s, c) == Max({0} \cup {i \in 1..Len(s) : s[i] = c})

\* str.strip(), for the blank
RECURSIVE lstrip(_)
lstrip(s) == IF s # <<>> /\ Head(s) = " " THEN lstrip(Tail(s)) ELSE s

RECURSIVE rstrip(_)
rstrip(s) ==
    IF s # <<>> /\ s[Len(s)] = " " THEN rstrip(SubSeq(s, 1, Len(s) - 1)) ELSE s

strip(s) == rstrip(lstrip(s))

\* str.replace(".", "")
RECURSIVE remove_dots(_)
remove_dots(s) ==
    IF s = <<>> THEN <<>>
    ELSE IF Head(s) = "." THEN remove_dots(Tail(s))
    ELSE <<Head(s)>> \o remove_dots(Tail(s))

\* os.path.basename
basename(p) == SubSeq(p, LastIndexOf(p, "/") + 1, Len(p))

\* os.path.dirname half of os.path.split (trailing slashes stripped unless root)
dirname(p) ==
    LET head == SubSeq(p, 1, LastIndexOf(p, "/"))
    IN  IF head # <<>> /\ \E i \in 1..Len(head) : head[i] # "/"
        THEN SubSeq(head, 1, Max({i \in 1..Len(head) : head[i] # "/"}))
        ELSE head

\* os.path.splitext: <<root, ext>>; the extension starts at the last dot of
\* the last path component, leading dots of that component not counting.
splitext(p) ==
    LET sepIndex == LastIndexOf(p, "/")
        dotIndex == LastIndexOf(p, ".")
    IN  IF /\ dotIndex > sepIndex
           /\ \E k \in (sepIndex + 1)..(dotIndex - 1) : p[k] # "."
        THEN <<SubSeq(p, 1, dotIndex - 1), SubSeq(p, dotIndex, Len(p))>>
        ELSE <<p, <<>>>>

\* os.path.join(a, b)
path_join(a, b) ==
    IF b # <<>> /\ Head(b) = "/" THEN b
    ELSE IF a = <<>> \/ a[Len(a)] = "/" THEN a \o b
    ELSE a \o <<"/">> \o b

\* upload/uploadhandlers.py get_file_extension
get_file_extension(name) ==
    LET ext == splitext(name)[2]
    IN  lower(IF ext = <<>> THEN <<>> ELSE Tail(ext))

\* layers/uploadhandlers.py _get_extension
layers_get_extension(file_fragment) == remove_dots(splitext(file_fragment)[2])

\* "x in list"
InSeq(x, s) == \E i \in 1..Len(s) : s[i] = x

(***************************************************************************)
(* Extensions and names the model draws its inputs from.                   *)
(***************************************************************************)
shp == <<"s", "h", "p">>
dbf == <<"d", "b", "f">>
shx == <<"s", "h", "x">>
prj == <<"p", "r", "j">>
xml == <<"x", "m", "l">>
sld == <<"s", "l", "d">>
zip == <<"z", "i", "p">>
kmz == <<"k", "m", "z">>
kml == <<"k", "m", "l">>
asc == <<"a", "s", "c">>
tif == <<"t", "i", "f">>
tiff == <<"t", "i", "f", "f">>
geotif == <<"g", "e", "o", "t", "i", "f">>
geotiff == <<"g", "e", "o", "t", "i", "f", "f">>
jpg == <<"j", "p", "g">>
jpeg == <<"j", "p", "e", "g">>
png == <<"p", "n", "g">>
gif == <<"g", "i", "f">>
txt == <<"t", "x", "t">>

\* base + "." + ext
N(base, ext) == base \o <<".">> \o ext

(***************************************************************************)
(* Uploaded files and errors.                                              *)
(***************************************************************************)
\* What lxml finds in a KML document: the number of kml:GroundOverlay
\* elements, the text nodes of the first overlay's kml:Icon/kml:href (a list
\* of none or one), and the number of child elements of the root element.
Doc(overlays, href, children) ==
    [overlays |-> overlays, href |-> href, children |-> children]

VectorDoc == Doc(0, <<>>, 1)

\* A Django uploaded file: its name, whether its bytes are a zip container
\* (zipfile.is_zipfile), the archive's namelist() and, for a KML file or the
\* first .kml member of an archive, what the document holds.
File(name, is_zip, members, doc) ==
    [name |-> name, is_zip |-> is_zip, members |-> members, doc |-> doc]

Plain(name) == File(name, FALSE, <<>>, VectorDoc)

is_zipfile(f) == f.is_zip

namelist(f) == f.members

Names(fs) == [i \in 1..Len(fs) |-> fs[i].name]

Err(exc, msg, arg) == [exc |-> exc, msg |-> msg, arg |-> arg]

NoError == Err("none", "", <<>>)

\* Exceptions the code raises on purpose to report a rejected upload, and
\* the ones that escape from a failed lookup.
ReportedExceptions == {"ValidationError", "RuntimeError"}

CrashExceptions ==
    {"IndexError", "KeyError", "AttributeError", "NotImplementedError"}

(***************************************************************************)
(* layers/uploadhandlers.py: classification and validation.                *)
(***************************************************************************)
\* What a function gives back: a value, or the exception it raised.
Return(value) == [error |-> NoError, value |-> value]

Raise(e) == [error |-> e, value |-> <<>>]

Raised(r) == r.error # NoError

\* get_upload_handler(form_cleaned_data): the handler class for base_file
layers_get_upload_handler(base_file) ==
    LET extension == lower(remove_dots(splitext(base_file.name)[2]))
    IN  IF is_zipfile(base_file)
        THEN IF extension = kmz THEN Return("KmzHandler")
             ELSE IF extension = zip THEN Return("ZippedFileHandler")
             ELSE Raise(Err("NotImplementedError", "", <<>>))
        ELSE IF extension = kml THEN Return("KmlHandler")
        ELSE IF extension = shp THEN Return("ShapefileHandler")
        ELSE IF extension = asc THEN Return("AsciiHandler")
        ELSE IF extension \in {tif, tiff, geotif, geotiff}
             THEN Return("GeotiffHandler")
        ELSE Raise(Err("ValidationError", "Unsupported file type",
                       base_file.name))

\* shapefile_additional of _validate_shapefile_components, in list order
ShapefileAux(extension, mandatory) ==
    [extension |-> extension, mandatory |-> mandatory]

shapefile_additional ==
    << ShapefileAux(dbf, TRUE), ShapefileAux(shx, TRUE),
       ShapefileAux(prj, FALSE), ShapefileAux(xml, FALSE),
       ShapefileAux(sld, FALSE) >>

\* The inner loop of _validate_shapefile_components for one component: the
\* indexes of the paths that end with the extension's letters and whose base
\* name is the main file's.  The loop breaks at the first of them.
AuxMatches(possible_files, base_name, extension) ==
    {i \in 1..Len(possible_files) :
        /\ endswith(possible_files[i], extension)
        /\ splitext(basename(possible_files[i]))[1] = base_name}

\* The components dict after the outer loop has handled the first n entries
\* of shapefile_additional, or the error of the first mandatory one missing.
RECURSIVE AuxLoop(_, _, _, _)
AuxLoop(possible_files, base_name, components, k) ==
    IF k > Len(shapefile_additional) THEN Return(components)
    ELSE LET aux == shapefile_additional[k]
             found == AuxMatches(possible_files, base_name, aux.extension)
         IN  IF found # {}
             THEN AuxLoop(possible_files, base_name,
                          [e \in DOMAIN components \cup {aux.extension} |->
                              IF e = aux.extension
                              THEN possible_files[
                                     CHOOSE i \in found :
                                        \A j \in found : i <= j]
                              ELSE components[e]],
                          k + 1)
             ELSE IF aux.mandatory
             THEN Raise(Err("ValidationError",
                            "Could not find file, which is mandatory for shapefile uploads",
                            aux.extension))
             ELSE AuxLoop(possible_files, base_name, components, k + 1)

\* _validate_shapefile_components(possible_files)
layers_validate_shapefile_components(possible_files) ==
    LET shp_files == SelectSeq(possible_files,
                               LAMBDA i : endswith(lower(i), N(<<>>, shp)))
    IN  IF Len(shp_files) > 1
        THEN Raise(Err("ValidationError",
                       "Only one shapefile per zip is allowed", <<>>))
        ELSE IF Len(shp_files) = 0
        THEN Raise(Err("IndexError", "list index out of range", <<>>))
        ELSE LET shape_component == shp_files[1]
                 base_name == splitext(basename(shape_component))[1]
             IN  AuxLoop(possible_files, base_name,
                         [e \in {shp} |-> shape_component], 1)

\* _validate_ground_overlay_kml(ground_overlay_element, namespaces,
\* possible_files): the icon path, which must be one of possible_files
layers_validate_ground_overlay_kml(doc, possible_files) ==
    IF doc.href = <<>>
    THEN Raise(Err("IndexError", "list index out of range", <<>>))
    ELSE LET icon_path == doc.href[1]
         IN  IF ~InSeq(icon_path, possible_files)
             THEN Raise(Err("ValidationError",
                            "Ground overlay image declared in kml file cannot be found",
                            <<>>))
             ELSE Return(icon_path)

\* _validate_kml(kml_bytes, other_files): the document alone (its len() is the
\* number of children of the root element), or the pair (kml_doc, image_path)
layers_validate_kml(doc, other_files) ==
    IF doc.overlays > 1
    THEN Raise(Err("ValidationError",
                   "kml files with more than one GroundOverlay are not supported",
                   <<>>))
    ELSE IF doc.overlays = 1
    THEN LET r == layers_validate_ground_overlay_kml(doc, other_files)
         IN  IF Raised(r) THEN r
             ELSE Return([len |-> 2, image_path |-> <<r.value>>])
    ELSE Return([len |-> doc.children, image_path |-> <<>>])

(***************************************************************************)
(* upload/uploadhandlers.py: classification and validation.                *)
(***************************************************************************)
\* KML_IMAGE_EXTENSIONS: every alias of every image kind
KML_IMAGE_EXTENSIONS == {tif, tiff, geotif, geotiff, jpg, jpeg, png, gif}

\* SHAPEFILE_COMPONENTS: extension -> mandatory
SHAPEFILE_COMPONENTS ==
    [e \in {shp, dbf, shx, prj, xml, sld} |-> e \in {shp, dbf, shx}]

\* The orders in which a build iterates over SHAPEFILE_COMPONENTS: the hash
\* order of CPython 2.7 (the same on 32 and 64 bit) and the insertion order
\* of CPython 3.7 and later.
ComponentOrders ==
    { <<shp, xml, shx, prj, sld, dbf>>, <<shp, dbf, shx, prj, xml, sld>> }

\* _get_file_by_extension(extension, files): a list of the file, or of none
get_file_by_extension(extension, fs) ==
    LET found == {i \in 1..Len(fs) : get_file_extension(fs[i].name) = extension}
    IN  IF found = {} THEN <<>>
        ELSE <<fs[CHOOSE i \in found : \A j \in found : i <= j]>>

\* look_for_kml_image_file(file_names): a list of the first name with an
\* image extension, or of none
look_for_kml_image_file(file_names) ==
    LET found == {i \in 1..Len(file_names) :
                     get_file_extension(file_names[i]) \in KML_IMAGE_EXTENSIONS}
    IN  IF found = {} THEN <<>>
        ELSE <<file_names[CHOOSE i \in found : \A j \in found : i <= j]>>

\* validate_kml_ground_overlay(kml_bytes, image_filepath)
validate_kml_ground_overlay(doc, image_filepath) ==
    IF doc.overlays > 1
    THEN Raise(Err("RuntimeError",
                   "kml files with more than one GroundOverlay are not supported",
                   <<>>))
    ELSE IF doc.overlays = 1
    THEN LET image_path == IF doc.href = <<>> THEN <<>> ELSE strip(doc.href[1])
         IN  IF image_path # image_filepath
             THEN Raise(Err("RuntimeError",
                            "Ground overlay image declared in kml file cannot be found",
                            <<>>))
             ELSE Return(<<>>)
    ELSE Return(<<>>)

\* The dict a handler builds from a list of names: for every extension of
\* SHAPEFILE_COMPONENTS the last name with that extension.
CollectComponents(names) ==
    LET having(e) == {i \in 1..Len(names) : get_file_extension(names[i]) = e}
    IN  [e \in {x \in DOMAIN SHAPEFILE_COMPONENTS : having(x) # {}} |->
            names[Max(having(e))]]

\* The loop over SHAPEFILE_COMPONENTS.items() of ZipHandler.validate_files
\* and ShapefileHandler.validate_files, from the k-th item of the order on.
RECURSIVE CheckComponents(_, _, _, _)
CheckComponents(components, shp_name, order, k) ==
    IF k > Len(order) THEN Return(<<>>)
    ELSE LET extension == order[k]
         IN  IF extension \notin DOMAIN components
             THEN IF SHAPEFILE_COMPONENTS[extension]
                  THEN Raise(Err("RuntimeError",
                                 "Could not find file, which is mandatory for shapefiles",
                                 extension))
                  ELSE CheckComponents(components, shp_name, order, k + 1)
             ELSE IF splitext(basename(components[extension]))[1] # shp_name
                  THEN Raise(Err("RuntimeError",
                                 "shp file and component file do not match",
                                 extension))
                  ELSE CheckComponents(components, shp_name, order, k + 1)

\* ZipHandler.validate_files
ZipHandler_validate_files(zip_file, order) ==
    LET shapefile_components == CollectComponents(namelist(zip_file))
    IN  IF shp \notin DOMAIN shapefile_components
        THEN Raise(Err("RuntimeError",
                       "Could not find shp file within the zip", <<>>))
        ELSE CheckComponents(shapefile_components,
                             splitext(shapefile_components[shp])[1], order, 1)

\* ShapefileHandler.validate_files
ShapefileHandler_validate_files(shapefile_components, order) ==
    IF shp \notin DOMAIN shapefile_components
    THEN Raise(Err("RuntimeError", "Could not find shp file", <<>>))
    ELSE CheckComponents(shapefile_components,
                         splitext(basename(shapefile_components[shp]))[1],
                         order, 1)

\* KmzHandler.validate_files handing the name of the kml member, not of the
\* image, to the overlay check
KmzHandler_validate_files_kml_name(kmz_file) ==
    LET contents == namelist(kmz_file)
        image_file_name == look_for_kml_image_file(contents)
        kml_files == SelectSeq(contents,
                               LAMBDA i : endswith(lower(i), N(<<>>, kml)))
    IN  IF kml_files = <<>>
        THEN Raise(Err("RuntimeError",
                       "Could not find any kml files inside the uploaded kmz",
                       <<>>))
        ELSE IF image_file_name # <<>>
        THEN validate_kml_ground_overlay(kmz_file.doc, kml_files[1])
        ELSE Return(<<>>)

\* KmzHandler.validate_files
KmzHandler_validate_files(kmz_file) ==
    LET contents == namelist(kmz_file)
        image_file_name == look_for_kml_image_file(contents)
        kml_files == SelectSeq(contents,
                               LAMBDA i : endswith(lower(i), N(<<>>, kml)))
    IN  IF kml_files = <<>>
        THEN Raise(Err("RuntimeError",
                       "Could not find any kml files inside the uploaded kmz",
                       <<>>))
        ELSE IF image_file_name # <<>>
        THEN validate_kml_ground_overlay(kmz_file.doc, image_file_name[1])
        ELSE Return(<<>>)

\* KmlHandler.validate_files
KmlHandler_validate_files(kml_file, image_file) ==
    IF image_file # <<>>
    THEN validate_kml_ground_overlay(kml_file.doc, image_file[1].name)
    ELSE Return(<<>>)

\* get_upload_handler(uploaded_files): the handler, built
upload_get_upload_handler(uploaded_files) ==
    LET extensions == [i \in 1..Len(uploaded_files) |->
                          get_file_extension(uploaded_files[i].name)]
    IN  IF InSeq(zip, extensions)
        THEN LET zip_file == get_file_by_extension(zip, uploaded_files)[1]
             IN  IF ~is_zipfile(zip_file)
                 THEN Raise(Err("RuntimeError", "Invalid zip file detected",
                                <<>>))
                 ELSE Return([class |-> "ZipHandler", zip_file |-> zip_file])
        ELSE IF InSeq(kmz, extensions)
        THEN LET kmz_file == get_file_by_extension(kmz, uploaded_files)[1]
             IN  IF ~is_zipfile(kmz_file)
                 THEN Raise(Err("RuntimeError", "Invalid kmz file detected",
                                <<>>))
                 ELSE Return([class |-> "KmzHandler", kmz_file |-> kmz_file])
        ELSE IF InSeq(shp, extensions)
        THEN Return([class |-> "ShapefileHandler",
                     shapefile_components |->
                         CollectComponents(Names(uploaded_files))])
        ELSE IF InSeq(kml, extensions)
        THEN LET kml_files == SelectSeq(uploaded_files,
                                  LAMBDA f : endswith(lower(f.name), kml))
                 image_name == look_for_kml_image_file(Names(uploaded_files))
             IN  Return([class |-> "KmlHandler",
                         kml_file |-> kml_files[1],
                         image_file |->
                            IF image_name = <<>> THEN <<>>
                            ELSE <<SelectSeq(uploaded_files,
                                     LAMBDA f : f.name = image_name[1])[1]>>])
        ELSE Return([class |-> "GenericHandler",
                     uploaded_files |-> uploaded_files])

(***************************************************************************)
(* layers/uploadhandlers.py: the handlers' constructors and save_files.    *)
(***************************************************************************)
\* ZippedFileHandler.__init__
ZippedFileHandler_init(base_file) ==
    LET r == layers_validate_shapefile_components(namelist(base_file))
    IN  IF Raised(r) THEN r
        ELSE Return([class |-> "ZippedFileHandler", zip_file |-> base_file,
                     resources |-> r.value])

\* KmzHandler.__init__ (layers)
layers_KmzHandler_init(base_file) ==
    LET zip_contents == namelist(base_file)
        is_kml(i) == endswith(lower(i), N(<<>>, kml))
        kml_files == SelectSeq(zip_contents, is_kml)
        other_components == SelectSeq(zip_contents, LAMBDA i : ~is_kml(i))
    IN  IF ~is_zipfile(base_file)
        THEN Raise(Err("ValidationError", "Invalid kmz file detected", <<>>))
        ELSE IF kml_files = <<>>
        THEN Raise(Err("ValidationError",
                       "Could not find any kml files inside the uploaded kmz",
                       <<>>))
        ELSE IF Len(kml_files) > 1
        THEN Raise(Err("ValidationError",
                       "Only one kml file per kmz is allowed", <<>>))
        ELSE LET r == layers_validate_kml(base_file.doc, other_components)
             IN  IF Raised(r) THEN r
                 ELSE Return([class |-> "KmzHandler", kmz_file |-> base_file,
                              kml_zip_path |-> kml_files[1]])

\* ShapefileHandler.__init__ (layers): every resolved path is the name of an
\* uploaded file, so the lookup of its django file always succeeds
layers_ShapefileHandler_init(form_files) ==
    LET r == layers_validate_shapefile_components(Names(form_files))
    IN  IF Raised(r) THEN r
        ELSE Return([class |-> "ShapefileHandler", files |-> r.value])

\* KmlHandler.__init__ (layers).  other_files holds names (strings); the
\* lookup of the ground overlay reads i.name on each of them.
layers_KmlHandler_init(kml_file, form_files) ==
    LET other_files == Names(Tail(form_files))
        r == layers_validate_kml(kml_file.doc, other_files)
    IN  IF Raised(r) THEN r
        ELSE IF r.value.len > 1
        THEN IF other_files # <<>>
             THEN Raise(Err("AttributeError",
                            "'str' object has no attribute 'name'", <<>>))
             ELSE Raise(Err("IndexError", "list index out of range", <<>>))
        ELSE Return([class |-> "KmlHandler",
                     files |-> [e \in {kml} |-> kml_file.name]])

\* handler_class(form_cleaned_data, form_files); base_file is form_files[1]
layers_handler_init(class, form_files) ==
    LET base_file == form_files[1]
    IN  CASE class = "KmzHandler" -> layers_KmzHandler_init(base_file)
          [] class = "ZippedFileHandler" -> ZippedFileHandler_init(base_file)
          [] class = "KmlHandler" ->
                layers_KmlHandler_init(base_file, form_files)
          [] class = "ShapefileHandler" ->
                layers_ShapefileHandler_init(form_files)
          [] OTHER -> Return([class |-> class, resource |-> base_file])

(***************************************************************************)
(* Writing to the destination directory.                                   *)
(***************************************************************************)
Letters ==
    {"a", "b", "c", "d", "e", "f", "g", "h", "i", "j", "k", "l", "m", "n",
     "o", "p", "q", "r", "s", "t", "u", "v", "w", "x", "y", "z",
     "A", "B", "D", "F", "K", "M", "Z"}

Digits == {"0", "1", "2", "3", "4", "5", "6", "7", "8", "9"}

\* str.split("/")
RECURSIVE split_path(_)
split_path(p) ==
    LET cut == {i \in 1..Len(p) : p[i] = "/"}
    IN  IF cut = {} THEN <<p>>
        ELSE LET i == CHOOSE x \in cut : \A y \in cut : x <= y
             IN  <<SubSeq(p, 1, i - 1)>> \o split_path(SubSeq(p, i + 1, Len(p)))

\* "/".join(parts)
RECURSIVE join_path(_)
join_path(parts) ==
    IF parts = <<>> THEN <<>>
    ELSE IF Len(parts) = 1 THEN parts[1]
    ELSE parts[1] \o <<"/">> \o join_path(Tail(parts))

\* Where ZipFile.extract(member, destination) writes a member: empty, "."
\* and ".." components of the member's name are dropped.
zip_extract_target(destination, member) ==
    path_join(destination,
              join_path(SelectSeq(split_path(member),
                           LAMBDA x : x \notin {<<>>, <<".">>, <<".", ".">>})))

\* clean_name: regex.sub over name from position k on.  A match is a maximal
\* run of characters outside the class: at the start of the name the class of
\* the first alternative (letters, dot, underscore), elsewhere the class of
\* the second (the same plus digits).
RECURSIVE regex_sub(_, _)
regex_sub(name, k) ==
    IF k > Len(name) THEN <<>>
    ELSE LET allowed(c) ==
                 \/ c \in Letters \cup {".", "_"}
                 \/ (k > 1 /\ c \in Digits)
             stop == {i \in k..Len(name) : allowed(name[i])}
             next == IF stop = {} THEN Len(name) + 1
                     ELSE CHOOSE i \in stop : \A j \in stop : i <= j
         IN  IF allowed(name[k])
             THEN <<name[k]>> \o regex_sub(name, k + 1)
             ELSE <<"_">> \o regex_sub(name, next)

\* clean_name without the underscore put before a leading digit
clean_name_no_prefix(name) == regex_sub(name, 1)

\* clean_name(name) for a non-empty name (name[0] raises IndexError on "")
clean_name(name) ==
    regex_sub(IF name[1] \in Digits THEN <<"_">> \o name ELSE name, 1)

\* ensure_safe_file_name(file_name) on the files of dsk
ensure_safe_file_name(file_name, dsk) ==
    LET base_name == basename(file_name)
    IN  IF base_name = <<>>
        THEN [error |-> Err("IndexError", "string index out of range", <<>>),
              value |-> <<>>, disk |-> dsk]
        ELSE LET safe == clean_name(base_name)
                 renamed == path_join(dirname(file_name), safe)
             IN  IF safe = base_name
                 THEN [error |-> NoError, value |-> file_name, disk |-> dsk]
                 ELSE IF file_name \notin dsk
                 THEN [error |-> Err("OSError", "No such file or directory",
                                     file_name),
                       value |-> <<>>, disk |-> dsk]
                 ELSE [error |-> NoError, value |-> renamed,
                       disk |-> (dsk \ {file_name}) \cup {renamed}]

\* extract_zip(zip_handler, destination): the paths it reports
extract_zip(zip_file, destination) ==
    [i \in 1..Len(namelist(zip_file)) |->
        path_join(destination, namelist(zip_file)[i])]

\* What extractall leaves in the destination directory
extractall(zip_file, destination) ==
    {zip_extract_target(destination, namelist(zip_file)[i]) :
        i \in 1..Len(namelist(zip_file))}

\* The first loop of write_uploaded_files_to_disk from the k-th file on.
\* written_paths is a list until a file that is no archive is written: then it
\* is that file's path, a string.
RECURSIVE write_loop(_, _, _, _, _)
write_loop(target_dir, fs, k, written_paths, dsk) ==
    IF k > Len(fs)
    THEN [error |-> NoError, value |-> written_paths, disk |-> dsk]
    ELSE IF is_zipfile(fs[k])
    THEN IF written_paths.is_str
         THEN [error |-> Err("AttributeError",
                             "'str' object has no attribute 'extend'", <<>>),
               value |-> written_paths,
               disk |-> dsk \cup extractall(fs[k], target_dir)]
         ELSE write_loop(target_dir, fs, k + 1,
                         [is_str |-> FALSE,
                          items |-> written_paths.items
                                       \o extract_zip(fs[k], target_dir)],
                         dsk \cup extractall(fs[k], target_dir))
    ELSE write_loop(target_dir, fs, k + 1,
                    [is_str |-> TRUE,
                     items |-> path_join(target_dir, fs[k].name)],
                    dsk \cup {path_join(target_dir, fs[k].name)})

\* The second loop of write_uploaded_files_to_disk: "for path in
\* written_paths" walks the paths of a list and the characters of a string.
RECURSIVE safe_loop(_, _, _, _)
safe_loop(paths, k, res, dsk) ==
    IF k > Len(paths) THEN [error |-> NoError, value |-> res, disk |-> dsk]
    ELSE LET r == ensure_safe_file_name(paths[k], dsk)
         IN  IF Raised(r) THEN [error |-> r.error, value |-> <<>>, disk |-> r.disk]
             ELSE safe_loop(paths, k + 1, Append(res, r.value), r.disk)

\* write_uploaded_files_to_disk(target_dir, *files)
write_uploaded_files_to_disk(target_dir, fs, dsk) ==
    LET w == write_loop(target_dir, fs, 1,
                        [is_str |-> FALSE, items |-> <<>>], dsk)
    IN  IF Raised(w) THEN [error |-> w.error, value |-> <<>>, disk |-> w.disk]
        ELSE safe_loop(IF w.value.is_str
                       THEN [i \in 1..Len(w.value.items) |->
                                <<w.value.items[i]>>]
                       ELSE w.value.items,
                       1, <<>>, w.disk)

\* The files a handler of the upload generation hands to
\* write_uploaded_files_to_disk, in the order of the call.  A shapefile's
\* components are the values of a dict, here in the given iteration order;
\* each is the last uploaded file with its extension.
upload_to_write(h, uploaded_files, order) ==
    CASE h.class = "GenericHandler" -> h.uploaded_files
      [] h.class = "ZipHandler" -> <<h.zip_file>>
      [] h.class = "KmzHandler" -> <<h.kmz_file>>
      [] h.class = "KmlHandler" -> <<h.kml_file>> \o h.image_file
      [] OTHER ->
            LET present == SelectSeq(order,
                              LAMBDA e : e \in DOMAIN h.shapefile_components)
            IN  [i \in 1..Len(present) |->
                    uploaded_files[
                        Max({j \in 1..Len(uploaded_files) :
                               get_file_extension(uploaded_files[j].name)
                                   = present[i]})]]

\* save_django_files(files, destination_dir): extension -> path, as the set
\* of its items, and the files written
save_django_files(names, destination_dir) ==
    [value |-> [e \in {layers_get_extension(names[i]) : i \in 1..Len(names)} |->
                   path_join(destination_dir,
                       names[Max({i \in 1..Len(names) :
                                    layers_get_extension(names[i]) = e})])],
     written |-> {path_join(destination_dir, names[i]) : i \in 1..Len(names)}]

\* save_zipped_file(zipped_file, destination_dir): extension -> path (a later
\* member replaces an earlier one of the same extension), and the files written
save_zipped_file(zipped_file, destination_dir) ==
    LET names == namelist(zipped_file)
    IN  [value |-> [e \in {layers_get_extension(names[i]) : i \in 1..Len(names)} |->
                       path_join(destination_dir,
                           names[Max({i \in 1..Len(names) :
                                        layers_get_extension(names[i]) = e})])],
         written |-> {zip_extract_target(destination_dir, names[i]) :
                         i \in 1..Len(names)}]

\* handler.save_files(destination_dir) of the layers generation.  The handlers
\* for shapefiles and KML documents save the values of self.files.
layers_save_files(h, destination_dir) ==
    CASE h.class \in {"ZippedFileHandler"} ->
            save_zipped_file(h.zip_file, destination_dir)
      [] h.class = "KmzHandler" -> save_zipped_file(h.kmz_file, destination_dir)
      [] h.class \in {"ShapefileHandler", "KmlHandler"} ->
            save_django_files(
                [i \in 1..Len(SelectSeq(<<shp, dbf, shx, prj, xml, sld, kml>>,
                                  LAMBDA e : e \in DOMAIN h.files)) |->
                    h.files[SelectSeq(<<shp, dbf, shx, prj, xml, sld, kml>>,
                                  LAMBDA e : e \in DOMAIN h.files)[i]]],
                destination_dir)
      [] OTHER -> save_django_files(<<h.resource.name>>, destination_dir)

(***************************************************************************)
(* upload/ingestionhandlers.py                                             *)
(***************************************************************************)
\* ShapefileIngestionHandler.__init__(paths): the loop over
\* SHAPEFILE_COMPONENTS.items() from the k-th item of the order on
RECURSIVE ingestion_loop(_, _, _, _)
ingestion_loop(paths, order, k, base_paths) ==
    IF k > Len(order) THEN Return(base_paths)
    ELSE LET found == {i \in 1..Len(paths) :
                          get_file_extension(paths[i]) = order[k]}
         IN  IF found # {}
             THEN ingestion_loop(paths, order, k + 1,
                      Append(base_paths,
                             paths[CHOOSE i \in found : \A j \in found : i <= j]))
             ELSE IF SHAPEFILE_COMPONENTS[order[k]]
             THEN Raise(Err("RuntimeError",
                            "Could not find shapfile component file", order[k]))
             ELSE ingestion_loop(paths, order, k + 1, base_paths)

\* get_ingestion_handler(paths).  GenericIngestionHandler() is called with no
\* argument, and the __init__ it inherits takes paths.
get_ingestion_handler(paths, order) ==
    IF \E i \in 1..Len(paths) : get_file_extension(paths[i]) = shp
    THEN LET r == ingestion_loop(paths, order, 1, <<>>)
         IN  IF Raised(r) THEN r
             ELSE Return([class |-> "ShapefileIngestionHandler",
                          base_paths |-> r.value])
    ELSE Raise(Err("TypeError", "__init__() takes exactly 2 arguments (1 given)",
                   <<>>))

(***************************************************************************)
(* The uploads the model submits.                                          *)
(***************************************************************************)
SeqsUpTo(S, n) == UNION {[1..k -> S] : k \in 0..n}

a == <<"a">>

\* Single-file uploads for the classifier, plain and zip containers
ClassifyNames ==
    {N(a, e) : e \in {kmz, zip, kml, shp, asc, tif, tiff, geotif, geotiff,
                      txt, png, <<"K", "M", "Z">>}} \cup {a}

\* Names of shapefile candidates: two base names, and a companion with an
\* upper-case extension
ShapeNames ==
    { N(a, shp), N(<<"b">>, shp), N(a, dbf), N(<<"b">>, dbf), N(a, shx),
      N(a, <<"D", "B", "F">>) }

\* href texts of a ground overlay and the files uploaded beside a KML
ImageNames == { N(<<"i">>, png), N(<<"j">>, png) }

Hrefs == { <<>> } \cup { <<n>> : n \in ImageNames }
              \cup { << <<" ">> \o N(<<"i">>, png) >> }

CompanionNames == ImageNames \cup { N(<<"n">>, txt) }

\* Most child elements of a KML document's root element
MaxRootChildren == 2

KmlDocs ==
    { Doc(0, <<>>, c) : c \in 1..MaxRootChildren }
        \cup { Doc(o, h, 1) : o \in 1..MaxOverlays, h \in Hrefs }

KmzMemberNames ==
    { N(<<"d">>, kml), N(<<"e">>, kml) } \cup CompanionNames

PlainFiles(names) == [i \in 1..Len(names) |-> Plain(names[i])]

ClassifyUploads ==
    { <<File(n, z, IF z THEN <<N(a, shp), N(a, dbf), N(a, shx)>> ELSE <<>>,
             VectorDoc)>> : n \in ClassifyNames, z \in BOOLEAN }

ShapefileUploads ==
    { PlainFiles(names) : names \in SeqsUpTo(ShapeNames, MaxFiles) \ {<<>>} }

ZipUploads ==
    { <<File(N(<<"z">>, zip), TRUE, members, VectorDoc)>> :
        members \in SeqsUpTo(ShapeNames, MaxFiles) }

KmlUploads ==
    { <<File(N(<<"d">>, kml), FALSE, <<>>, doc)>> \o PlainFiles(others) :
        doc \in KmlDocs, others \in SeqsUpTo(CompanionNames, MaxCompanions) }

KmzUploads ==
    { <<File(N(<<"k">>, kmz), TRUE, members, doc)>> :
        members \in SeqsUpTo(KmzMemberNames, MaxCompanions + 1),
        doc \in { Doc(0, <<>>, 1) }
                   \cup { Doc(o, <<n>>, 1) : o \in 1..MaxOverlays,
                                             n \in ImageNames } }

\* Member names that point out of the directory an archive is extracted to
\* (a parent directory, an absolute path) and one in a folder
EscapeNames ==
    { <<".", ".", "/", "e">>, <<"/", "e">>, <<"s", "/", "e">> }

\* A member name with a character that clean_name replaces
UnsafeMemberNames == { <<"e", "-">> }

\* KMZ archives of a vector document and such members
EscapeUploads ==
    { <<File(N(<<"k">>, kmz), TRUE, <<N(<<"d">>, kml)>> \o members,
             VectorDoc)>> :
        members \in SeqsUpTo(EscapeNames \cup UnsafeMemberNames,
                             MaxCompanions) }

Uploads ==
    ClassifyUploads \cup ShapefileUploads \cup ZipUploads \cup KmlUploads
        \cup KmzUploads \cup EscapeUploads

\* Destination directories the caller supplies
Destinations == { <<"/", "t">>, <<"t">> }

(***************************************************************************)
(* The state machine.                                                      *)
(***************************************************************************)
NoHandler == [class |-> "none"]

NoSpatialFiles == [files |-> <<>>, archive |-> <<>>]

Init ==
    /\ gen \in {"layers", "upload"}
    /\ files \in Uploads
    /\ pc = "start"
    /\ handler = NoHandler
    /\ error = NoError
    /\ disk = {}
    /\ result = <<>>
    /\ ingestion = NoHandler
    /\ temporary_directory = <<>>
    /\ spatial_files = NoSpatialFiles
    /\ commands = <<>>

\* layers: get_upload_handler(form_cleaned_data)
LayersGetUploadHandler ==
    /\ gen = "layers"
    /\ pc = "start"
    /\ LET r == layers_get_upload_handler(files[1])
       IN  IF Raised(r)
           THEN /\ pc' = "validation_failed"
                /\ error' = r.error
                /\ UNCHANGED handler
           ELSE /\ pc' = "classified"
                /\ handler' = [class |-> r.value]
                /\ UNCHANGED error
    /\ UNCHANGED <<gen, files, disk, result, ingestion, temporary_directory>>
    /\ UNCHANGED <<spatial_files, commands>>

\* The constructor keeping the handler when its validation has raised
LayersHandlerInit_keeps_handler ==
    /\ gen = "layers"
    /\ pc = "classified"
    /\ LET r == layers_handler_init(handler.class, files)
       IN  /\ pc' = "validated"
           /\ IF Raised(r)
              THEN error' = r.error /\ UNCHANGED handler
              ELSE handler' = r.value /\ UNCHANGED error
    /\ UNCHANGED <<gen, files, disk, result, ingestion, temporary_directory>>
    /\ UNCHANGED <<spatial_files, commands>>

\* layers: handler_class(form_cleaned_data, form_files), which validates
LayersHandlerInit ==
    /\ gen = "layers"
    /\ pc = "classified"
    /\ LET r == layers_handler_init(handler.class, files)
       IN  IF Raised(r)
           THEN /\ pc' = "validation_failed"
                /\ error' = r.error
                /\ UNCHANGED handler
           ELSE /\ pc' = "validated"
                /\ handler' = r.value
                /\ UNCHANGED error
    /\ UNCHANGED <<gen, files, disk, result, ingestion, temporary_directory>>
    /\ UNCHANGED <<spatial_files, commands>>

\* layers: create_geonode_layer calls handler.save_files(temporary_directory)
LayersSaveFiles ==
    /\ gen = "layers"
    /\ pc = "validated"
    /\ \E destination \in Destinations :
          LET r == layers_save_files(handler, destination)
          IN  /\ disk' = disk \cup r.written
              /\ result' = r.value
              /\ pc' = "written"
              /\ temporary_directory' = destination
    /\ UNCHANGED <<gen, files, handler, error, ingestion>>
    /\ UNCHANGED <<spatial_files, commands>>

\* upload: get_upload_handler(uploaded_files)
UploadGetUploadHandler ==
    /\ gen = "upload"
    /\ pc = "start"
    /\ LET r == upload_get_upload_handler(files)
       IN  IF Raised(r)
           THEN /\ pc' = "validation_failed"
                /\ error' = r.error
                /\ UNCHANGED handler
           ELSE /\ pc' = "constructed"
                /\ handler' = r.value
                /\ UNCHANGED error
    /\ UNCHANGED <<gen, files, disk, result, ingestion, temporary_directory>>
    /\ UNCHANGED <<spatial_files, commands>>

\* The caller of the upload generation's handlers (the upload view, which is
\* not among the sources) follows the state machine of the design: a handler
\* is validated once, right after it is built, and its files are written
\* only when validate_files has returned.
CallerValidates == pc = "constructed"

CallerWritesFiles == pc = "validated"

\* upload: handler.validate_files()
handler_validate_files(h, order) ==
    CASE h.class = "ZipHandler" -> ZipHandler_validate_files(h.zip_file, order)
      [] h.class = "KmzHandler" -> KmzHandler_validate_files(h.kmz_file)
      [] h.class = "KmlHandler" ->
            KmlHandler_validate_files(h.kml_file, h.image_file)
      [] h.class = "ShapefileHandler" ->
            ShapefileHandler_validate_files(h.shapefile_components, order)
      [] OTHER -> Return(<<>>)

UploadValidateFiles ==
    /\ gen = "upload"
    /\ CallerValidates
    /\ \E order \in ComponentOrders :
          LET r == handler_validate_files(handler, order)
          IN  IF Raised(r)
              THEN /\ pc' = "validation_failed"
                   /\ error' = r.error
              ELSE /\ pc' = "validated"
                   /\ UNCHANGED error
    /\ UNCHANGED <<gen, files, handler, disk, result, ingestion, temporary_directory>>
    /\ UNCHANGED <<spatial_files, commands>>

\* upload: handler.write_files(destination)
UploadWriteFiles ==
    /\ gen = "upload"
    /\ CallerWritesFiles
    /\ \E destination \in Destinations, order \in ComponentOrders :
          LET r == write_uploaded_files_to_disk(destination,
                       upload_to_write(handler, files, order), disk)
          IN  /\ disk' = r.disk
              /\ temporary_directory' = destination
              /\ IF Raised(r)
                 THEN /\ pc' = "write_failed"
                      /\ error' = r.error
                      /\ UNCHANGED result
                 ELSE /\ pc' = "written"
                      /\ result' = r.value
                      /\ UNCHANGED error
    /\ UNCHANGED <<gen, files, handler, ingestion>>
    /\ UNCHANGED <<spatial_files, commands>>

\* upload: get_ingestion_handler(paths) on the written paths
UploadGetIngestionHandler ==
    /\ gen = "upload"
    /\ pc = "written"
    /\ \E order \in ComponentOrders :
          LET r == get_ingestion_handler(result, order)
          IN  IF Raised(r)
              THEN /\ pc' = "ingestion_failed"
                   /\ error' = r.error
                   /\ UNCHANGED ingestion
              ELSE /\ pc' = "ready"
                   /\ ingestion' = r.value
                   /\ UNCHANGED error
    /\ UNCHANGED <<gen, files, handler, disk, result, temporary_directory>>
    /\ UNCHANGED <<spatial_files, commands>>

Next ==
    \/ LayersGetUploadHandler
    \/ LayersHandlerInit
    \/ LayersSaveFiles
    \/ UploadGetUploadHandler
    \/ UploadValidateFiles
    \/ UploadWriteFiles
    \/ UploadGetIngestionHandler

Spec == Init /\ [][Next]_vars

(***************************************************************************)
(* ensure_safe_file_name on its own: one file of any name lies in the      *)
(* destination directory and is given its safe name.                       *)
(***************************************************************************)
\* Characters of the names: a letter, a digit, the dot, the underscore and
\* two characters outside the regex's classes
NameChars == {"a", "1", ".", "_", "-", " "}

UnsafeNames == SeqsUpTo(NameChars, MaxNameLen) \ {<<>>}

InitSafeName ==
    /\ gen = "upload"
    /\ files \in { <<Plain(n)>> : n \in UnsafeNames }
    /\ pc = "start"
    /\ handler = NoHandler
    /\ error = NoError
    /\ temporary_directory \in Destinations
    /\ disk = {path_join(temporary_directory, files[1].name)}
    /\ result = <<>>
    /\ ingestion = NoHandler
    /\ spatial_files = NoSpatialFiles
    /\ commands = <<>>

\* ensure_safe_file_name(file_name) for the one file on disk
EnsureSafeFileName ==
    /\ pc = "start"
    /\ \E file_name \in disk :
          LET r == ensure_safe_file_name(file_name, disk)
          IN  /\ disk' = r.disk
              /\ IF Raised(r)
                 THEN /\ pc' = "write_failed"
                      /\ error' = r.error
                      /\ UNCHANGED result
                 ELSE /\ pc' = "renamed"
                      /\ result' = <<r.value>>
                      /\ UNCHANGED error
    /\ UNCHANGED <<gen, files, handler, ingestion, temporary_directory>>
    /\ UNCHANGED <<spatial_files, commands>>

NextSafeName == EnsureSafeFileName

SpecSafeName == InitSafeName /\ [][NextSafeName]_vars

(***************************************************************************)
(* upload/ingestionhandlers.py preprocess_files on its own: the written    *)
(* files have been grouped into SpatialFiles, and every KML ground overlay *)
(* among them is converted to a geotiff by the external gdal_translate.    *)
(***************************************************************************)
\* Most spatial files in one SpatialFiles collection.
MaxSpatialFiles == 2

\* geonode.upload.files.SpatialFile
SpatialFile(file_type, base_file, auxillary_files) ==
    [file_type |-> file_type, base_file |-> base_file,
     auxillary_files |-> auxillary_files]

\* SpatialFile.all_files(): the base file and its auxiliary files
all_files(spatial_file) ==
    <<spatial_file.base_file>> \o spatial_file.auxillary_files

\* How a run of the external tool can end: exit status 0, a non-zero exit
\* status, or no gdal_translate binary on the PATH
ToolOutcomes == {"ok", "nonzero_exit", "missing_binary"}

\* subprocess.check_output(command), given how the tool ends
check_output(outcome) ==
    CASE outcome = "ok" -> Return(<<>>)
      [] outcome = "nonzero_exit" ->
            Raise(Err("CalledProcessError",
                      "Command returned non-zero exit status", <<>>))
      [] outcome = "missing_binary" ->
            Raise(Err("OSError", "No such file or directory", <<>>))

\* convert_kml_ground_overlay_to_geotiff(kml_path, other_file_path): the
\* command that is run and what the call returns.  The KML is one that was
\* typed as a ground overlay, so its LatLonBox is read without error.
convert_kml_ground_overlay_to_geotiff(kml_path, other_file_path, outcome) ==
    LET split == <<dirname(other_file_path), basename(other_file_path)>>
        output_path ==
            path_join(split[1], splitext(split[2])[1] \o <<".">> \o tif)
        command == [kml |-> kml_path, input |-> other_file_path,
                    output |-> output_path]
        run == check_output(outcome)
    IN  [error |-> run.error,
         value |-> IF Raised(run) THEN <<>> ELSE output_path,
         command |-> command]

\* The loop of preprocess_files from spatial file k on; outcomes[k] is how
\* the tool ends when it is run for spatial file k.
RECURSIVE preprocess_loop(_, _, _, _, _)
preprocess_loop(sfs, k, outcomes, acc, run) ==
    IF k > Len(sfs.files)
    THEN [error |-> NoError,
          value |-> acc \o sfs.archive,
          commands |-> run]
    ELSE LET spatial_file == sfs.files[k]
         IN  IF spatial_file.file_type = "KML Ground Overlay"
             THEN LET preprocessed ==
                          convert_kml_ground_overlay_to_geotiff(
                              spatial_file.base_file,
                              spatial_file.auxillary_files[1],
                              outcomes[k])
                      ran == Append(run, preprocessed.command)
                  IN  IF Raised(preprocessed)
                      THEN [error |-> preprocessed.error,
                            value |-> <<>>,
                            commands |-> ran]
                      ELSE preprocess_loop(
                               sfs, k + 1, outcomes,
                               Append(acc, preprocessed.value), ran)
             ELSE preprocess_loop(sfs, k + 1, outcomes,
                                  acc \o all_files(spatial_file), run)

preprocess_files(sfs, outcomes) == preprocess_loop(sfs, 1, outcomes, <<>>, <<>>)

\* The spatial files: a ground overlay with its image, of every accepted
\* image extension, in a relative or an absolute directory; a shapefile
GroundOverlayFiles ==
    { SpatialFile("KML Ground Overlay",
                  path_join(d, N(<<"d">>, kml)),
                  <<path_join(d, N(<<"i">>, e))>>) :
          d \in Destinations, e \in KML_IMAGE_EXTENSIONS }

OtherSpatialFiles ==
    { SpatialFile("Shapefile", path_join(<<"t">>, N(a, shp)),
                  <<path_join(<<"t">>, N(a, dbf)),
                    path_join(<<"t">>, N(a, shx))>>) }

SpatialFilesInputs ==
    { [files |-> fs, archive |-> z] :
          fs \in SeqsUpTo(GroundOverlayFiles \cup OtherSpatialFiles,
                          MaxSpatialFiles) \ {<<>>},
          z \in {<<>>, <<path_join(<<"t">>, N(<<"z">>, zip))>>} }

PathsOf(sfs) ==
    UNION {{all_files(sfs.files[k])[i] :
                i \in 1..Len(all_files(sfs.files[k]))} :
               k \in 1..Len(sfs.files)}
        \cup {sfs.archive[i] : i \in 1..Len(sfs.archive)}

InitPreprocess ==
    /\ gen = "upload"
    /\ files = <<>>
    /\ pc = "written"
    /\ handler = NoHandler
    /\ error = NoError
    /\ temporary_directory = <<>>
    /\ spatial_files \in SpatialFilesInputs
    /\ disk = PathsOf(spatial_files)
    /\ result = <<>>
    /\ ingestion = NoHandler
    /\ commands = <<>>

\* preprocess_files(spatial_files)
PreprocessFiles ==
    /\ pc = "written"
    /\ \E outcomes \in [1..Len(spatial_files.files) -> ToolOutcomes] :
          LET r == preprocess_files(spatial_files, outcomes)
          IN  /\ commands' = r.commands
              /\ disk' = disk \cup
                     {r.commands[i].output :
                          i \in {j \in 1..Len(r.commands) :
                                     j < Len(r.commands) \/ ~Raised(r)}}
              /\ IF Raised(r)
                 THEN /\ pc' = "preprocess_failed"
                      /\ error' = r.error
                      /\ UNCHANGED result
                 ELSE /\ pc' = "preprocessed"
                      /\ result' = r.value
                      /\ UNCHANGED error
    /\ UNCHANGED <<gen, files, handler, ingestion, temporary_directory>>
    /\ UNCHANGED spatial_files

NextPreprocess == PreprocessFiles

SpecPreprocess == InitPreprocess /\ [][NextPreprocess]_vars

(***************************************************************************)
(* Extraction of an archive on its own: extract_zip of the upload          *)
(* generation and save_zipped_file of the layers generation, applied to    *)
(* one zip archive and a destination directory.                            *)
(***************************************************************************)
\* Most members of the archive that is extracted.
MaxMembers == 3

\* Member names: a document, two images of one extension, a member in a
\* subdirectory, and names that point out of the destination
ArchiveMemberNames ==
    { N(<<"d">>, kml), N(<<"i">>, png), N(<<"j">>, png) } \cup EscapeNames

ArchiveInputs ==
    { File(N(<<"k">>, zip), TRUE, members, VectorDoc) :
          members \in SeqsUpTo(ArchiveMemberNames, MaxMembers) }

InitExtract ==
    /\ gen \in {"layers", "upload"}
    /\ files \in { <<f>> : f \in ArchiveInputs }
    /\ pc = "start"
    /\ handler = NoHandler
    /\ error = NoError
    /\ temporary_directory \in Destinations
    /\ disk = {}
    /\ result = <<>>
    /\ ingestion = NoHandler
    /\ spatial_files = NoSpatialFiles
    /\ commands = <<>>

\* upload: extract_zip(zip_handler, destination)
ExtractZip ==
    /\ gen = "upload"
    /\ pc = "start"
    /\ result' = extract_zip(files[1], temporary_directory)
    /\ disk' = disk \cup extractall(files[1], temporary_directory)
    /\ pc' = "extracted"
    /\ UNCHANGED <<gen, files, handler, error, ingestion, temporary_directory>>
    /\ UNCHANGED <<spatial_files, commands>>

\* layers: save_zipped_file(zipped_file, destination_dir)
SaveZippedFile ==
    /\ gen = "layers"
    /\ pc = "start"
    /\ LET r == save_zipped_file(files[1], temporary_directory)
       IN  /\ result' = r.value
           /\ disk' = disk \cup r.written
    /\ pc' = "extracted"
    /\ UNCHANGED <<gen, files, handler, error, ingestion, temporary_directory>>
    /\ UNCHANGED <<spatial_files, commands>>

NextExtract ==
    \/ ExtractZip
    \/ SaveZippedFile

SpecExtract == InitExtract /\ [][NextExtract]_vars

(***************************************************************************)
(* Vocabulary of the claims.                                               *)
(***************************************************************************)
\* The primary file of an upload: the form's base_file in the layers
\* generation; the upload generation is handed a plain list of files, so a
\* primary file is spoken of only when one file is uploaded.
HasPrimary == gen = "layers" \/ Len(files) = 1

Primary == files[1]

PrimaryExtension == get_file_extension(Primary.name)

\* The classifier has run
Classified == pc # "start"

\* It ended in an error: no handler was chosen
ClassifyFailed == pc = "validation_failed" /\ handler = NoHandler

\* The format the decision order of section 4.1 gives
ExpectedFormat(valid_zip, extension) ==
    IF valid_zip
    THEN IF extension = kmz THEN "KmzArchive"
         ELSE IF extension = zip THEN "ZippedShapefile"
         ELSE "Unsupported"
    ELSE IF extension = kml THEN "KmlDocument"
    ELSE IF extension = shp THEN "ShapefileSet"
    ELSE IF extension = asc THEN "RasterAscii"
    ELSE IF extension \in {tif, tiff, geotif, geotiff} THEN "RasterGeoTiff"
    ELSE "Unsupported"

\* The formats a handler class stands for.  GenericHandler, which the upload
\* generation uses for raw rasters, counts for both raster formats.
FormatsOf(class) ==
    CASE class = "KmzHandler" -> {"KmzArchive"}
      [] class \in {"ZippedFileHandler", "ZipHandler"} -> {"ZippedShapefile"}
      [] class = "KmlHandler" -> {"KmlDocument"}
      [] class = "ShapefileHandler" -> {"ShapefileSet"}
      [] class = "AsciiHandler" -> {"RasterAscii"}
      [] class = "GeotiffHandler" -> {"RasterGeoTiff"}
      [] class = "GenericHandler" -> {"RasterAscii", "RasterGeoTiff"}
      [] OTHER -> {}

ArchiveHandlers == {"KmzHandler", "ZippedFileHandler", "ZipHandler"}

(***************************************************************************)
(* C1.  classify (get_upload_handler) is a function of (the primary file   *)
(* is a valid zip, its lower-case extension) and follows the decision      *)
(* order: every input gets exactly the outcome the order gives, a format   *)
(* or an unsupported-format error.                                         *)
(***************************************************************************)
C1_DecisionOrder ==
    (Classified /\ HasPrimary) =>
        LET expected == ExpectedFormat(is_zipfile(Primary), PrimaryExtension)
        IN  IF expected = "Unsupported"
            THEN ClassifyFailed
            ELSE ~ClassifyFailed /\ expected \in FormatsOf(handler.class)

\* The same for the classifier of the layers generation alone
C1_DecisionOrder_layers == gen = "layers" => C1_DecisionOrder

(***************************************************************************)
(* C2.  Zip-ness is checked before any extension-only rule: a primary file *)
(* that is a valid zip container is never given a handler that is not an   *)
(* archive handler, whatever its extension.                                *)
(***************************************************************************)
C2_ZipBeforeExtension ==
    (Classified /\ HasPrimary /\ is_zipfile(Primary)) =>
        (ClassifyFailed \/ handler.class \in ArchiveHandlers)

\* The same for the classifier of the layers generation alone
C2_ZipBeforeExtension_layers == gen = "layers" => C2_ZipBeforeExtension

(***************************************************************************)
(* C3.  Every unrecognized extension/zip combination ends in an            *)
(* UnsupportedFormat validation error that includes the offending name:    *)
(* never a crash, never a successful classification.                       *)
(***************************************************************************)
C3_UnsupportedIsReported ==
    (/\ Classified
     /\ HasPrimary
     /\ ExpectedFormat(is_zipfile(Primary), PrimaryExtension) = "Unsupported")
        => /\ ClassifyFailed
           /\ error.exc = "ValidationError"
           /\ error.msg = "Unsupported file type"
           /\ error.arg = Primary.name

(***************************************************************************)
(* Vocabulary of the shapefile claims.                                     *)
(***************************************************************************)
ShapeHandlers == {"ShapefileHandler", "ZippedFileHandler", "ZipHandler"}

\* The candidate names a shapefile handler resolves: the members of the
\* archive, or the names of the uploaded files
Candidates ==
    IF handler.class \in {"ZippedFileHandler", "ZipHandler"}
    THEN namelist(files[1])
    ELSE Names(files)

\* A shapefile handler has validated its candidates (resolve has run)
Resolved ==
    /\ handler.class \in ShapeHandlers
    /\ gen = "layers" => pc \notin {"start", "classified"}
    /\ gen = "upload" => pc \notin {"start", "constructed"}

ResolveFailed == Resolved /\ pc = "validation_failed"

ResolveSucceeded == Resolved /\ pc # "validation_failed"

\* The component set of a handler whose validation succeeded
Components ==
    CASE gen = "layers" /\ handler.class = "ShapefileHandler" -> handler.files
      [] gen = "layers" /\ handler.class = "ZippedFileHandler" ->
            handler.resources
      [] gen = "upload" /\ handler.class = "ShapefileHandler" ->
            handler.shapefile_components
      [] OTHER -> CollectComponents(Candidates)

\* Base name: directory- and extension-stripped
BaseName(name) == splitext(basename(name))[1]

IsShp(name) == endswith(lower(name), N(<<>>, shp))

ShpIndexes == {i \in 1..Len(Candidates) : IsShp(Candidates[i])}

\* With exactly one .shp among the candidates: its name
TheShp == Candidates[CHOOSE i \in ShpIndexes : TRUE]

\* Some candidate has the extension (in any case of letters)
HasExtension(e) ==
    \E i \in 1..Len(Candidates) : get_file_extension(Candidates[i]) = e

\* Some candidate has the extension (in any case of letters) and the base
\* name of the .shp
HasMatching(e) ==
    \E i \in 1..Len(Candidates) :
        /\ get_file_extension(Candidates[i]) = e
        /\ BaseName(Candidates[i]) = BaseName(TheShp)

CompanionExtensions == {dbf, shx, prj, xml, sld}

IsIncomplete(e) ==
    /\ e.exc \in ReportedExceptions
    /\ e.msg \in {"Could not find file, which is mandatory for shapefile uploads",
                  "Could not find file, which is mandatory for shapefiles",
                  "Could not find shapfile component file"}

IsAmbiguous(e) ==
    /\ e.exc \in ReportedExceptions
    /\ e.msg \in {"Only one shapefile per zip is allowed",
                  "kml files with more than one GroundOverlay are not supported",
                  "Only one kml file per kmz is allowed"}

IsInconsistent(e) ==
    /\ e.exc \in ReportedExceptions
    /\ e.msg = "shp file and component file do not match"

(***************************************************************************)
(* C4.  With exactly one .shp and a .dbf and a .shx of the same base name  *)
(* among the candidates, resolve succeeds, and every entry of the          *)
(* component set has the base name of the shp entry and the extension of   *)
(* its key.                                                                *)
(***************************************************************************)
C4_CompleteSetResolves ==
    (/\ Resolved
     /\ Cardinality(ShpIndexes) = 1
     /\ HasMatching(dbf)
     /\ HasMatching(shx))
        => /\ ResolveSucceeded
           /\ \A key \in DOMAIN Components :
                 /\ BaseName(Components[key]) = BaseName(Components[shp])
                 /\ get_file_extension(Components[key]) = key

(***************************************************************************)
(* C5.  With exactly one .shp and no .dbf, or no .shx, among the           *)
(* candidates, resolve fails with an IncompleteComponentSet error that     *)
(* names an extension that is missing.                                     *)
(***************************************************************************)
C5_MissingCompanionNamed ==
    (/\ Resolved
     /\ Cardinality(ShpIndexes) = 1
     /\ ~HasExtension(dbf) \/ ~HasExtension(shx))
        => /\ ResolveFailed
           /\ IsIncomplete(error)
           /\ error.arg \in {dbf, shx}
           /\ ~HasMatching(error.arg)

(***************************************************************************)
(* C6.  With two or more .shp among the candidates (uploaded names or zip  *)
(* members) validation fails with AmbiguousStructure; no .shp is picked,   *)
(* and nothing has been written to the destination directory.              *)
(***************************************************************************)
C6_TwoShpAmbiguous ==
    (Resolved /\ Cardinality(ShpIndexes) >= 2)
        => /\ ResolveFailed
           /\ IsAmbiguous(error)
           /\ disk = {}

\* The same for the layers generation alone
C6_TwoShpAmbiguous_layers == gen = "layers" => C6_TwoShpAmbiguous

(***************************************************************************)
(* C7.  With no .shp among the candidates resolve fails with a reported    *)
(* validation error, not with an unhandled lookup or index crash.          *)
(***************************************************************************)
C7_NoShpReported ==
    (Resolved /\ ShpIndexes = {})
        => /\ ResolveFailed
           /\ error.exc \in ReportedExceptions

\* The same for the upload generation alone
C7_NoShpReported_upload == gen = "upload" => C7_NoShpReported

(***************************************************************************)
(* C8.  When a companion (dbf, shx, prj, xml, sld) is among the candidates *)
(* with a base name other than the primary .shp's, validation fails with   *)
(* an InconsistentComponentSet error: the file is neither accepted nor     *)
(* reported as missing.  Stated for the candidate lists where nothing else *)
(* is wrong: both mandatory extensions occur, and no file of the           *)
(* mismatching extension has the base name of the .shp.                    *)
(***************************************************************************)
C8_MismatchInconsistent ==
    (/\ Resolved
     /\ Cardinality(ShpIndexes) = 1
     /\ HasExtension(dbf)
     /\ HasExtension(shx)
     /\ \E e \in CompanionExtensions : HasExtension(e) /\ ~HasMatching(e))
        => /\ ResolveFailed
           /\ IsInconsistent(error)

\* The same for the upload generation alone
C8_MismatchInconsistent_upload == gen = "upload" => C8_MismatchInconsistent

(***************************************************************************)
(* Vocabulary of the KML claims.                                           *)
(***************************************************************************)
\* A KML handler has validated the upload: files[1] is the document, the
\* rest are the bundle's other files
KmlChecked ==
    /\ handler.class = "KmlHandler"
    /\ gen = "layers" => pc \notin {"start", "classified"}
    /\ gen = "upload" => pc \notin {"start", "constructed"}

KmlDoc == files[1].doc

OtherNames == Names(Tail(files))

\* Validation reported an error
KmlRejected == pc = "validation_failed" /\ error.exc \in ReportedExceptions

\* Validation let the document through.  In the layers generation the
\* constructor goes on after _validate_kml has returned: an exception of
\* that later part is not an outcome of the validation.
KmlAccepted ==
    \/ pc # "validation_failed"
    \/ /\ gen = "layers"
       /\ \/ error.exc = "AttributeError"
          \/ error.exc = "IndexError" /\ KmlDoc.overlays = 0

IsImageNotFound(e) ==
    /\ e.exc \in ReportedExceptions
    /\ e.msg = "Ground overlay image declared in kml file cannot be found"

(***************************************************************************)
(* C9.  KML validation has three outcomes, decided by the number of        *)
(* GroundOverlay elements, for every set of companion files: none, the     *)
(* document is valid; one, it is valid only if the declared icon path is   *)
(* equal, character for character, to the name of one of the other files   *)
(* (and is valid when it is); two or more, it fails with                   *)
(* AmbiguousStructure.                                                     *)
(***************************************************************************)
C9_KmlThreeOutcomes ==
    KmlChecked =>
        CASE KmlDoc.overlays = 0 -> KmlAccepted
          [] KmlDoc.overlays = 1 ->
                /\ KmlAccepted =>
                      /\ KmlDoc.href # <<>>
                      /\ InSeq(KmlDoc.href[1], OtherNames)
                /\ (KmlDoc.href # <<>> /\ InSeq(KmlDoc.href[1], OtherNames))
                      => KmlAccepted
          [] OTHER -> KmlRejected /\ IsAmbiguous(error)

\* The same for the layers generation alone
C9_KmlThreeOutcomes_layers == gen = "layers" => C9_KmlThreeOutcomes

(***************************************************************************)
(* C10.  A KML document with one GroundOverlay whose declared image path   *)
(* names no uploaded file fails validation with IncompleteComponentSet     *)
(* (ground overlay image declared in kml file cannot be found); it never   *)
(* validates.                                                              *)
(***************************************************************************)
C10_MissingImageRejected ==
    (/\ KmlChecked
     /\ KmlDoc.overlays = 1
     /\ KmlDoc.href # <<>>
     /\ ~InSeq(KmlDoc.href[1], OtherNames)
     /\ ~InSeq(strip(KmlDoc.href[1]), OtherNames))
        => KmlRejected /\ IsImageNotFound(error)

\* The same for the layers generation alone
C10_MissingImageRejected_layers == gen = "layers" => C10_MissingImageRejected

(***************************************************************************)
(* C11.  A bundle of a KML file with exactly one GroundOverlay and, as the *)
(* second uploaded file, the image whose name is the overlay's declared    *)
(* icon path is accepted: building the KML handler and validating it ends  *)
(* without an error, and the handler's file set holds the kml and the      *)
(* image.                                                                  *)
(***************************************************************************)
\* The names of the files the KML handler holds
KmlHandlerFileNames ==
    IF gen = "upload"
    THEN {handler.kml_file.name} \cup {handler.image_file[i].name :
                                          i \in 1..Len(handler.image_file)}
    ELSE IF "files" \in DOMAIN handler
    THEN {handler.files[e] : e \in DOMAIN handler.files}
    ELSE {}

KmlWithItsImage ==
    /\ KmlChecked
    /\ Len(files) = 2
    /\ KmlDoc.overlays = 1
    /\ KmlDoc.href # <<>>
    /\ files[2].name = KmlDoc.href[1]

C11_KmlWithImageAccepted ==
    KmlWithItsImage =>
        /\ pc # "validation_failed"
        /\ KmlHandlerFileNames = {files[1].name, files[2].name}

\* The same for the upload generation alone
C11_KmlWithImageAccepted_upload == gen = "upload" => C11_KmlWithImageAccepted

(***************************************************************************)
(* Vocabulary of the KMZ claims.                                           *)
(***************************************************************************)
\* The upload is one file with the extension kmz that is a zip container
IsKmzBundle ==
    /\ Len(files) = 1
    /\ get_file_extension(files[1].name) = kmz
    /\ is_zipfile(files[1])

\* Classification and validation of the upload are over
ValidationDone ==
    /\ gen = "layers" => pc \notin {"start", "classified"}
    /\ gen = "upload" => pc \notin {"start", "constructed"}

KmzMembers == namelist(files[1])

KmlMembers ==
    {i \in 1..Len(KmzMembers) : get_file_extension(KmzMembers[i]) = kml}

ImageMembers ==
    {i \in 1..Len(KmzMembers) :
        get_file_extension(KmzMembers[i]) \in KML_IMAGE_EXTENSIONS}

\* Validation ended in an error
ValidationFailed == pc = "validation_failed"

(***************************************************************************)
(* C12.  A single .kmz file that is a valid zip holding one .kml member    *)
(* with one GroundOverlay, and as its image the member named by the        *)
(* overlay's icon path, is classified as a KMZ archive (KmzHandler) and    *)
(* validates.                                                              *)
(***************************************************************************)
KmzWithItsImage ==
    /\ IsKmzBundle
    /\ Cardinality(KmlMembers) = 1
    /\ files[1].doc.overlays = 1
    /\ files[1].doc.href # <<>>
    /\ Cardinality(ImageMembers) = 1
    /\ \A i \in ImageMembers : KmzMembers[i] = files[1].doc.href[1]

IsKmlMissing(e) ==
    /\ e.exc \in ReportedExceptions
    /\ e.msg = "Could not find any kml files inside the uploaded kmz"

C13_KmzOneKml ==
    (IsKmzBundle /\ ValidationDone) =>
        /\ Cardinality(KmlMembers) = 0 =>
              ValidationFailed /\ IsKmlMissing(error)
        /\ Cardinality(KmlMembers) >= 2 =>
              ValidationFailed /\ IsAmbiguous(error)
        /\ ~ValidationFailed => Cardinality(KmlMembers) = 1

\* The same for the layers generation alone
C13_KmzOneKml_layers == gen = "layers" => C13_KmzOneKml

(***************************************************************************)
(* Vocabulary of the claim about clean_name (specification SpecSafeName).  *)
(***************************************************************************)
\* The name given to clean_name, and the name it returned
GivenName == files[1].name

SafeName == basename(result[1])

AllowedChars == Letters \cup Digits \cup {".", "_"}

StartsWithDigit == GivenName[1] \in Digits

\* 1 when an underscore is put before the name, else 0
Shift == IF StartsWithDigit THEN 1 ELSE 0

(***************************************************************************)
(* C14 as stated.  For every non-empty name clean_name replaces each       *)
(* character outside [A-Za-z0-9._] by one underscore, keeps every allowed  *)
(* character unchanged and in order, and prefixes one underscore when the  *)
(* name starts with a digit: the result has only characters of             *)
(* [A-Za-z0-9._], does not start with a digit, and is as long as the name, *)
(* plus one exactly when the name starts with a digit.                     *)
(***************************************************************************)
C14_CleanNamePerCharacter ==
    pc = "renamed" =>
        /\ Len(SafeName) = Len(GivenName) + Shift
        /\ StartsWithDigit => SafeName[1] = "_"
        /\ \A i \in 1..Len(GivenName) :
              /\ i + Shift <= Len(SafeName)
              /\ SafeName[i + Shift] =
                    IF GivenName[i] \in AllowedChars THEN GivenName[i] ELSE "_"
        /\ \A i \in 1..Len(SafeName) : SafeName[i] \in AllowedChars
        /\ SafeName[1] \notin Digits

(***************************************************************************)
(* C14 amended.  For every non-empty name clean_name prefixes one          *)
(* underscore when the name starts with a digit, then replaces each        *)
(* maximal run of characters outside [A-Za-z0-9._] by ONE underscore (a    *)
(* run at the very start of the name also takes in the digits that follow  *)
(* it), and keeps every other character unchanged and in order: the        *)
(* result has only characters of [A-Za-z0-9._], does not start with a      *)
(* digit, and is at most as long as the name plus one for a leading digit. *)
(***************************************************************************)
\* The name after the prefix
Prefixed == IF StartsWithDigit THEN <<"_">> \o GivenName ELSE GivenName

\* The i-th character of the prefixed name is replaced: it is outside the
\* allowed characters, or it is a digit with nothing but characters outside
\* [A-Za-z._] before it
Replaced(i) ==
    \/ Prefixed[i] \notin AllowedChars
    \/ /\ Prefixed[i] \in Digits
       /\ \A j \in 1..(i - 1) : Prefixed[j] \notin Letters \cup {".", "_"}

\* The positions that leave a character in the result: the kept characters
\* and the first character of every run of replaced ones
Leaving == {i \in 1..Len(Prefixed) : ~Replaced(i) \/ i = 1 \/ ~Replaced(i - 1)}

\* The k-th smallest position of Leaving
LeavingAt(k) ==
    CHOOSE i \in Leaving : Cardinality({j \in Leaving : j <= i}) = k

C14_CleanNamePerRun ==
    pc = "renamed" =>
        /\ Len(SafeName) = Cardinality(Leaving)
        /\ \A k \in 1..Cardinality(Leaving) :
              SafeName[k] = IF Replaced(LeavingAt(k)) THEN "_"
                            ELSE Prefixed[LeavingAt(k)]
        /\ \A i \in 1..Len(SafeName) : SafeName[i] \in AllowedChars
        /\ SafeName[1] \notin Digits
        /\ Len(SafeName) <= Len(GivenName) + Shift

\* A name with two adjacent characters outside the classes has been cleaned,
\* and the result is shorter than the name
C14_RunCollapsed ==
    /\ pc = "renamed"
    /\ \E i \in 1..(Len(GivenName) - 1) :
          GivenName[i] \notin AllowedChars /\ GivenName[i + 1] \notin AllowedChars
    /\ Len(SafeName) < Len(GivenName)

(***************************************************************************)
(* Vocabulary of the claims about written and reported paths.              *)
(***************************************************************************)
\* os.path.normpath on the components of a path: "" and "." are dropped and
\* ".." takes back the component before it (at the root it is dropped, at
\* the start of a relative path it stays)
RECURSIVE NormParts(_, _, _)
NormParts(parts, absolute, done) ==
    IF parts = <<>> THEN done
    ELSE LET c == Head(parts)
         IN  IF c \in {<<>>, <<".">>}
             THEN NormParts(Tail(parts), absolute, done)
             ELSE IF c = <<".", ".">>
             THEN IF done # <<>> /\ done[Len(done)] # <<".", ".">>
                  THEN NormParts(Tail(parts), absolute,
                                 SubSeq(done, 1, Len(done) - 1))
                  ELSE IF absolute
                  THEN NormParts(Tail(parts), absolute, done)
                  ELSE NormParts(Tail(parts), absolute, Append(done, c))
             ELSE NormParts(Tail(parts), absolute, Append(done, c))

IsAbsolute(p) == p # <<>> /\ Head(p) = "/"

\* The path lies inside the directory: below it once both are normalised
IsInside(p, directory) ==
    LET pp == NormParts(split_path(p), IsAbsolute(p), <<>>)
        dd == NormParts(split_path(directory), IsAbsolute(directory), <<>>)
    IN  /\ IsAbsolute(p) = IsAbsolute(directory)
        /\ Len(pp) > Len(dd)
        /\ SubSeq(pp, 1, Len(dd)) = dd

\* The paths save_files / write_files returned (the values of a dict, or the
\* items of a list)
ReportedPaths == {result[k] : k \in DOMAIN result}

\* An archive has been handed to save_files / write_files
ArchiveWritten ==
    /\ temporary_directory # <<>>
    /\ Len(files) = 1
    /\ is_zipfile(files[1])

(***************************************************************************)
(* C15.  Extraction of an archive never writes and never reports a path    *)
(* outside the destination directory: a member whose path would leave it   *)
(* (an absolute path, a path with ..) is rejected or normalised to lie     *)
(* under the destination, never extracted or returned as a path outside.   *)
(***************************************************************************)
C15_NoPathOutsideDestination ==
    ArchiveWritten =>
        /\ \A p \in disk : IsInside(p, temporary_directory)
        /\ \A p \in ReportedPaths : IsInside(p, temporary_directory)

\* What does hold: nothing is written outside the destination directory
C15_NothingWrittenOutside ==
    ArchiveWritten => \A p \in disk : IsInside(p, temporary_directory)

IsSanitized(p) == basename(p) # <<>> /\ clean_name(basename(p)) = basename(p)

WriteSucceeded == pc \in {"written", "ready", "ingestion_failed"}

C17_ResultIsWhatWasWritten ==
    WriteSucceeded =>
        /\ ReportedPaths = disk
        /\ \A p \in ReportedPaths :
              IsSanitized(p) /\ IsInside(p, temporary_directory)

(***************************************************************************)
(* Raster conversion of a KML ground overlay.                              *)
(***************************************************************************)
\* The ground overlays among the spatial files
GroundOverlays ==
    {k \in 1..Len(spatial_files.files) :
         spatial_files.files[k].file_type = "KML Ground Overlay"}

\* The tool has been run for an image the KML validation accepts
ConvertedImage(command) ==
    get_file_extension(command.input) \in KML_IMAGE_EXTENSIONS

\* C18: every run of convert_kml_ground_overlay_to_geotiff for an accepted
\* image writes beside its input: the output path is in the companion's
\* directory, has the companion's base name with the extension tif, and is
\* a different path from the input companion.
C18_RasterizeBesideInput ==
    \A i \in 1..Len(commands) :
        ConvertedImage(commands[i]) =>
            LET input == commands[i].input
                output == commands[i].output
            IN  /\ dirname(output) = dirname(input)
                /\ splitext(basename(output))[1] = splitext(basename(input))[1]
                /\ splitext(basename(output))[2] = <<".">> \o tif
                /\ output # input

\* The part of C18 the code keeps: directory, base name and extension
C18_RasterizeNamesOutput ==
    \A i \in 1..Len(commands) :
        ConvertedImage(commands[i]) =>
            /\ dirname(commands[i].output) = dirname(commands[i].input)
            /\ commands[i].output =
                   splitext(commands[i].input)[1] \o <<".">> \o tif

\* preprocess_files ended in an exception of the external tool
ConversionFailed == pc = "preprocess_failed"

\* C19: a failure of the external tool is fatal: the tool was run at most
\* once per ground overlay, no path is returned, and the failure is of one
\* kind, the same for a non-zero exit and for a missing binary, that is not
\* a validation error kind.
C19_ConversionFailureFatal ==
    ConversionFailed =>
        /\ Len(commands) <= Cardinality(GroundOverlays)
        /\ result = <<>>
        /\ error.exc \notin ReportedExceptions
        /\ \A outcome \in ToolOutcomes \ {"ok"} :
              check_output(outcome).error.exc = error.exc

\* The part of C19 the code keeps: no retry, nothing returned, and never a
\* validation error kind
C19_ConversionFailureStops ==
    ConversionFailed =>
        /\ Len(commands) <= Cardinality(GroundOverlays)
        /\ result = <<>>
        /\ error.exc \notin ReportedExceptions

(***************************************************************************)
(* Round trip of archive extraction.                                       *)
(***************************************************************************)
\* The archive has been extracted into temporary_directory
Extracted == pc = "extracted"

\* A member's name prefixed with the destination directory
UnderDestination(member) == temporary_directory \o <<"/">> \o member

\* C20: the paths returned by extracting an archive are its member names,
\* each prefixed with the destination directory: none dropped, none added,
\* none renamed, and, where a list is returned, in archive order.
C20_ExtractionRoundTrip ==
    Extracted =>
        LET names == namelist(files[1])
        IN  /\ ReportedPaths =
                   {UnderDestination(names[i]) : i \in 1..Len(names)}
            /\ Cardinality(DOMAIN result) = Len(names)
            /\ gen = "upload" =>
                   result = [i \in 1..Len(names) |-> UnderDestination(names[i])]

\* The part of C20 the upload generation keeps: one path per member, in
\* archive order, prefixed with the destination unless the member's name is
\* absolute
C20_ExtractionRoundTrip_upload ==
    (Extracted /\ gen = "upload") =>
        LET names == namelist(files[1])
        IN  /\ Len(result) = Len(names)
            /\ \A i \in 1..Len(names) :
                  ~IsAbsolute(names[i]) =>
                      result[i] = UnderDestination(names[i])

====
